---- MODULE Spec2Model ----
(***************************************************************************)
(* A model of the work-timer server of src/index.js: the `timers` object,  *)
(* the seven tool handlers registered on it, the label schema the argument *)
(* validation applies before a handler runs, and the helpers they share.   *)
(*                                                                         *)
(* Strings that the code inspects character by character (labels) are      *)
(* sequences of one-character strings; a JavaScript value that may be      *)
(* undefined (or a number that may be NaN) is a sequence of length 0 or 1. *)
(* `timers` is a plain object literal, so a property read falls through to *)
(* Object.prototype when the object has no own property of that name.      *)
(* The wall clock is taken to be non-decreasing.                           *)
(***************************************************************************)
EXTENDS Integers, Sequences, FiniteSets, TLC

\* timers: the object of line 11; now: the wall clock, in ms; result: what the
\* last call answered; inflight: the calls whose handler has been invoked and
\* has not returned (used by SpecSteps, which runs a handler in two steps).
VARIABLES timers, now, result, inflight

vars == <<timers, now, result, inflight>>

(***************************************************************************)
(* Bounds of the model.                                                    *)
(***************************************************************************)
\* The number of times the clock advances.
MaxTicks == 1
\* The amount by which the clock advances, in milliseconds.
TickMs == 30500

(***************************************************************************)
(* Labels.                                                                 *)
(***************************************************************************)
LowerLetters ==
  {"a", "b", "c", "d", "e", "f", "g", "h", "i", "j", "k", "l", "m",
   "n", "o", "p", "q", "r", "s", "t", "u", "v", "w", "x", "y", "z"}

Digits == {"0", "1", "2", "3", "4", "5", "6", "7", "8", "9"}

\* The character class [a-z0-9_-] of the label pattern.
LabelChars == LowerLetters \cup Digits \cup {"_", "-"}

\* z.string().max(30)
MaxLabelLen == 30

RECURSIVE Str(_)
\* The JavaScript string a sequence of characters stands for.
Str(s) == IF s = <<>> THEN "" ELSE Head(s) \o Str(Tail(s))

\* An optional argument: undefined, or a string.
Undefined == [present |-> FALSE, str |-> <<>>]
Some(s) == [present |-> TRUE, str |-> s]

\* The schema without .max(30).
requiredLabelSchema_NoMax(arg) ==
  /\ arg.present
  /\ Len(arg.str) >= 1
  /\ \A i \in 1..Len(arg.str) : arg.str[i] \in LabelChars

\* z.string().max(30).regex(/^[a-z0-9_-]+$/), the schema of `to` and `start`.
requiredLabelSchema(arg) ==
  /\ arg.present
  /\ Len(arg.str) <= MaxLabelLen
  /\ Len(arg.str) >= 1
  /\ \A i \in 1..Len(arg.str) : arg.str[i] \in LabelChars

\* labelSchema: the same, .optional().
labelSchema(arg) == ~arg.present \/ requiredLabelSchema(arg)

default == <<"d", "e", "f", "a", "u", "l", "t">>

\* resolveLabel without the substitution of "default".
resolveLabel_NoDefault(label) == label.str

\* label || "default": undefined and the empty string are both falsy.
resolveLabel(label) ==
  IF ~label.present \/ label.str = <<>> THEN default ELSE label.str

(***************************************************************************)
(* The labels the operations are called with.                              *)
(***************************************************************************)
Label2 == <<"2">>
Label10 == <<"1", "0">>
LabelConstructor == <<"c", "o", "n", "s", "t", "r", "u", "c", "t", "o", "r">>
LabelProto == <<"_", "_", "p", "r", "o", "t", "o", "_", "_">>
LabelUpper == <<"A">>
LabelEmpty == <<>>
LabelLong == [i \in 1..(MaxLabelLen + 1) |-> "a"]

ValidLabels == {default, Label2, Label10, LabelConstructor, LabelProto}
InvalidLabels == {LabelUpper, LabelEmpty, LabelLong}

\* The argument values that pass labelSchema: an omitted label, or a label
\* that matches the pattern.
ValidArgs == {Undefined} \cup {Some(s) : s \in ValidLabels}
\* The argument values that pass the schema of `to` and `start`.
RequiredArgs == {Some(s) : s \in ValidLabels}
\* Every argument value a call may carry for a label parameter.
Args == ValidArgs \cup {Some(s) : s \in InvalidLabels}

(***************************************************************************)
(* JavaScript numbers and dates: <<n>> is the number n, <<>> is NaN (or,   *)
(* for a property value, undefined).                                       *)
(***************************************************************************)
NaN == <<>>
Num(n) == <<n>>
IsNaN(x) == x = <<>>

\* a - b on numbers/dates; anything minus undefined is NaN.
Minus(a, b) == IF IsNaN(a) \/ IsNaN(b) THEN NaN ELSE Num(a[1] - b[1])

\* Math.floor(a / k), k > 0.
FloorDiv(a, k) == IF IsNaN(a) THEN NaN ELSE Num(a[1] \div k)

\* a % k, k > 0: the remainder takes the sign of the dividend.
Rem(a, k) ==
  IF IsNaN(a) THEN NaN
  ELSE IF a[1] >= 0 THEN Num(a[1] % k) ELSE Num(0 - ((0 - a[1]) % k))

\* a >= 0 in the place of a > 0.
Positive_OrZero(a) == ~IsNaN(a) /\ a[1] >= 0

\* a > 0; any comparison with NaN is false.
Positive(a) == ~IsNaN(a) /\ a[1] > 0

\* `${a}`
NumToString(a) ==
  IF IsNaN(a) THEN "NaN"
  ELSE IF a[1] < 0 THEN "-" \o ToString(0 - a[1]) ELSE ToString(a[1])

RECURSIVE join_NoSeparator(_, _)
\* join that leaves the separator out.
join_NoSeparator(parts, sep) ==
  IF parts = <<>> THEN "" ELSE parts[1] \o join_NoSeparator(Tail(parts), sep)

RECURSIVE join(_, _)
\* parts.join(sep)
join(parts, sep) ==
  IF parts = <<>> THEN ""
  ELSE IF Len(parts) = 1 THEN parts[1]
  ELSE parts[1] \o sep \o join(Tail(parts), sep)

formatElapsed(ms) ==
  LET totalSeconds == FloorDiv(ms, 1000)
      hours == FloorDiv(totalSeconds, 3600)
      minutes == FloorDiv(Rem(totalSeconds, 3600), 60)
      seconds == Rem(totalSeconds, 60)
      parts0 == IF Positive(hours) THEN <<NumToString(hours) \o "h">> ELSE <<>>
      parts1 == IF Positive(minutes)
                THEN Append(parts0, NumToString(minutes) \o "m") ELSE parts0
      parts2 == Append(parts1, NumToString(seconds) \o "s")
  IN join(parts2, " ")

TwoDigits(n) == IF n < 10 THEN "0" \o ToString(n) ELSE ToString(n)

\* date.toLocaleTimeString(): the time of day, to the second (rendered here
\* in 24-hour form, UTC); the date and the milliseconds are not shown.
toLocaleTimeString(date) ==
  LET secs == (date[1] \div 1000) % 86400
  IN ToString(secs \div 3600) \o ":" \o TwoDigits((secs % 3600) \div 60)
       \o ":" \o TwoDigits(secs % 60)

(***************************************************************************)
(* The `timers` object: `const timers = {}`.  Its own properties are kept  *)
(* as a sequence of [key, value] in the order in which they were created;  *)
(* its prototype is Object.prototype.                                      *)
(***************************************************************************)
\* { startTime: new Date() }
Timer(date) == [tag |-> "Timer", startTime |-> Num(date)]
\* The function Object, which Object.prototype.constructor refers to; it has
\* no startTime property.
ObjectFunction == [tag |-> "Object", startTime |-> <<>>]
\* Object.prototype itself, which the __proto__ accessor returns; it has no
\* startTime property.
ObjectPrototype == [tag |-> "Object.prototype", startTime |-> <<>>]

HasOwn(t, name) == \E i \in 1..Len(t) : t[i].key = name

OwnValue(t, name) == t[CHOOSE i \in 1..Len(t) : t[i].key = name].value

\* A property read that finds no own property continues on Object.prototype.
\* Of its property names only "constructor" and "__proto__" are made of the
\* characters a label may contain.
PrototypeGet(name) ==
  IF name = LabelConstructor THEN <<ObjectFunction>>
  ELSE IF name = LabelProto THEN <<ObjectPrototype>>
  ELSE <<>>

\* timers[name]: <<value>>, or <<>> for undefined.
Get(t, name) ==
  IF HasOwn(t, name) THEN <<OwnValue(t, name)>> ELSE PrototypeGet(name)

\* if (timers[name]): every value the object can hold is an object or a
\* function, hence truthy; undefined is falsy.
Truthy(v) == v # <<>>

\* timers[name] = value.  An existing own property keeps its position, a new
\* one is created last; an assignment to __proto__ runs the inherited setter
\* and creates no own property.
Set(t, name, value) ==
  IF HasOwn(t, name)
  THEN [i \in 1..Len(t) |->
          IF t[i].key = name THEN [key |-> name, value |-> value] ELSE t[i]]
  ELSE IF name = LabelProto THEN t
  ELSE Append(t, [key |-> name, value |-> value])

\* delete timers[name]: removes an own property, and is a no-op otherwise.
Delete(t, name) == SelectSeq(t, LAMBDA e : e.key # name)

DigitValue(c) ==
  CASE c = "0" -> 0 [] c = "1" -> 1 [] c = "2" -> 2 [] c = "3" -> 3
    [] c = "4" -> 4 [] c = "5" -> 5 [] c = "6" -> 6 [] c = "7" -> 7
    [] c = "8" -> 8 [] c = "9" -> 9

RECURSIVE DigitsLess(_, _)
\* Of two digit strings of equal length, whether the first is the smaller.
DigitsLess(a, b) ==
  IF a = <<>> THEN FALSE
  ELSE IF DigitValue(Head(a)) # DigitValue(Head(b))
       THEN DigitValue(Head(a)) < DigitValue(Head(b))
       ELSE DigitsLess(Tail(a), Tail(b))

\* Numeric order of canonical numeric strings.
IndexLess(a, b) ==
  Len(a) < Len(b) \/ (Len(a) = Len(b) /\ DigitsLess(a, b))

\* 2^32 - 2, the largest array index.
MaxArrayIndex == <<"4", "2", "9", "4", "9", "6", "7", "2", "9", "4">>

\* A property key that is a canonical numeric string of an array index:
\* digits only, no leading zero, at most 2^32 - 2.
IsArrayIndex(s) ==
  /\ Len(s) >= 1
  /\ \A i \in 1..Len(s) : s[i] \in Digits
  /\ (Len(s) > 1 => s[1] # "0")
  /\ ~IndexLess(MaxArrayIndex, s)

RECURSIVE SortIndices(_)
\* The index keys of a set in ascending numeric order.
SortIndices(S) ==
  IF S = {} THEN <<>>
  ELSE LET m == CHOOSE x \in S : \A y \in S \ {x} : IndexLess(x, y)
       IN <<m>> \o SortIndices(S \ {m})

\* The own keys in creation order.
InsertionOrder(t) == [i \in 1..Len(t) |-> t[i].key]

\* Object.keys(timers): the array-index keys in ascending numeric order
\* first, then the other keys in the order of their creation.
ObjectKeys(t) ==
  LET keys == InsertionOrder(t)
      indices == {keys[i] : i \in {j \in 1..Len(keys) : IsArrayIndex(keys[j])}}
  IN SortIndices(indices) \o SelectSeq(keys, LAMBDA k : ~IsArrayIndex(k))

\* runningCount counting one timer too many.
runningCount_OffByOne(t) == Len(ObjectKeys(t)) + 1

\* runningCount(), on the object t.
runningCount(t) == Len(ObjectKeys(t))

(***************************************************************************)
(* What a call produces: the text the handler returns, or a fault.         *)
(*   fault  "none":       the handler returned { content: [text] }         *)
(*          "validation": the arguments failed their schema and the        *)
(*                        handler was not run                              *)
(*          "TypeError":  the handler threw, reading a property of         *)
(*                        undefined                                        *)
(*   kind   the return statement that produced the text                    *)
(*   names  the labels of the lines of a listing, in order                 *)
(***************************************************************************)
Returned(op, kind, text, names) ==
  [op |-> op, fault |-> "none", kind |-> kind, text |-> text, names |-> names]

Thrown(op) ==
  [op |-> op, fault |-> "TypeError", kind |-> "", text |-> "", names |-> <<>>]

Rejected(op) ==
  [op |-> op, fault |-> "validation", kind |-> "", text |-> "", names |-> <<>>]

\* `"${name}"`
Quoted(name) == "\"" \o Str(name) \o "\""

\* value.startTime.toLocaleTimeString() throws when startTime is undefined.
CanFormatStart(value) == ~IsNaN(value.startTime)

(***************************************************************************)
(* The tool handlers, as functions of the object, the clock and the        *)
(* arguments: each yields the object and the outcome it leaves behind.     *)
(***************************************************************************)
Outcome(t, r) == [timers |-> t, result |-> r]

RECURSIVE MapQuoted(_)
\* names.map(n => `"${n}"`)
MapQuoted(names) ==
  IF names = <<>> THEN <<>> ELSE <<Quoted(Head(names))>> \o MapQuoted(Tail(names))

StartTimer(t, clock, label) ==
  LET name == resolveLabel(label)
      found == Get(t, name)
      t1 == Set(t, name, Timer(clock))
      started == "Timer " \o Quoted(name) \o " started at "
                   \o toLocaleTimeString(Num(clock)) \o "."
      warning == "\n\nHeads up: you now have " \o ToString(runningCount(t1))
                   \o " timers running (" \o join(MapQuoted(ObjectKeys(t1)), ", ")
                   \o "). Did you forget to stop one?"
  IN IF Truthy(found)
     THEN IF CanFormatStart(found[1])
          THEN Outcome(t, Returned("start_timer", "already_running",
                 "Timer " \o Quoted(name) \o " is already running (started at "
                   \o toLocaleTimeString(found[1].startTime) \o ").", <<>>))
          ELSE Outcome(t, Thrown("start_timer"))
     ELSE IF runningCount(t1) >= 3
          THEN Outcome(t1, Returned("start_timer", "started_warning",
                 started \o warning, ObjectKeys(t1)))
          ELSE Outcome(t1, Returned("start_timer", "started",
                 started, <<>>))

\* current_timer removing the timer it reports on.
CurrentTimer_Stops(t, clock, label) ==
  Outcome(Delete(t, resolveLabel(label)),
          Returned("current_timer", "running", "", <<>>))

CurrentTimer(t, clock, label) ==
  LET name == resolveLabel(label)
      timer == Get(t, name)
      elapsed == formatElapsed(Minus(Num(clock), timer[1].startTime))
  IN IF ~Truthy(timer)
     THEN Outcome(t, Returned("current_timer", "not_running",
            "No timer named " \o Quoted(name) \o " is running.", <<>>))
     ELSE IF CanFormatStart(timer[1])
          THEN Outcome(t, Returned("current_timer", "running",
                 "Timer " \o Quoted(name) \o " is running.\nStarted:  "
                   \o toLocaleTimeString(timer[1].startTime)
                   \o "\nElapsed:  " \o elapsed, <<>>))
          ELSE Outcome(t, Thrown("current_timer"))

StopTimer(t, clock, label) ==
  LET name == resolveLabel(label)
      timer == Get(t, name)
      elapsed == formatElapsed(Minus(Num(clock), timer[1].startTime))
      t1 == Delete(t, name)
  IN IF ~Truthy(timer)
     THEN Outcome(t, Returned("stop_timer", "not_running",
            "No timer named " \o Quoted(name) \o " is running.", <<>>))
     ELSE IF CanFormatStart(timer[1])
          THEN Outcome(t1, Returned("stop_timer", "stopped",
                 "Timer " \o Quoted(name) \o " stopped.\nStarted:  "
                   \o toLocaleTimeString(timer[1].startTime)
                   \o "\nStopped:  " \o toLocaleTimeString(Num(clock))
                   \o "\nElapsed:  " \o elapsed, <<>>))
          \* the entry is deleted before the text is built
          ELSE Outcome(t1, Thrown("stop_timer"))

RECURSIVE ListLines(_, _, _)
\* names.map(name => ...) of list_timers: the lines, in the order of names.
ListLines(t, clock, names) ==
  IF names = <<>> THEN <<>>
  ELSE LET value == OwnValue(t, Head(names))
       IN <<"- " \o Quoted(Head(names)) \o "  started "
              \o toLocaleTimeString(value.startTime) \o "  ("
              \o formatElapsed(Minus(Num(clock), value.startTime)) \o ")">>
            \o ListLines(t, clock, Tail(names))

ListTimers(t, clock) ==
  LET names == ObjectKeys(t)
  IN IF Len(names) = 0
     THEN Outcome(t, Returned("list_timers", "no_timers",
            "No timers are running.", <<>>))
     ELSE IF \A i \in 1..Len(names) : CanFormatStart(OwnValue(t, names[i]))
          THEN Outcome(t, Returned("list_timers", "listing",
                 "Running timers (" \o ToString(Len(names)) \o "):\n"
                   \o join(ListLines(t, clock, names), "\n"), names))
          ELSE Outcome(t, Thrown("list_timers"))

RECURSIVE StopAllLines(_, _, _)
\* names.map(name => ...) of stop_all_timers, where every value has a start
\* time (the arrow between the two times is written "->" here).
StopAllLines(t, clock, names) ==
  IF names = <<>> THEN <<>>
  ELSE LET value == OwnValue(t, Head(names))
       IN <<"- " \o Quoted(Head(names)) \o "  "
              \o toLocaleTimeString(value.startTime) \o " -> "
              \o toLocaleTimeString(Num(clock)) \o "  ("
              \o formatElapsed(Minus(Num(clock), value.startTime)) \o ")">>
            \o StopAllLines(t, clock, Tail(names))

RECURSIVE DeleteUntilThrow(_, _)
\* The object the map callback of stop_all_timers leaves behind: it deletes
\* the entries in the order of names, and stops at the first one whose start
\* time cannot be formatted, which throws before its delete.
DeleteUntilThrow(t, names) ==
  IF names = <<>> THEN t
  ELSE IF CanFormatStart(OwnValue(t, Head(names)))
       THEN DeleteUntilThrow(Delete(t, Head(names)), Tail(names))
       ELSE t

StopAllTimers(t, clock) ==
  LET names == ObjectKeys(t)
      t1 == DeleteUntilThrow(t, names)
  IN IF Len(names) = 0
     THEN Outcome(t, Returned("stop_all_timers", "no_timers",
            "No timers are running.", <<>>))
     ELSE IF \A i \in 1..Len(names) : CanFormatStart(OwnValue(t, names[i]))
          THEN Outcome(t1, Returned("stop_all_timers",
                 "stopped_all",
                 "Stopped " \o ToString(Len(names)) \o " timer(s):\n"
                   \o join(StopAllLines(t, clock, names), "\n"), names))
          ELSE Outcome(t1, Thrown("stop_all_timers"))

\* rename_timer without its check of the target label.
RenameTimer_Clobber(t, from, to) ==
  LET oldName == resolveLabel(from)
      newName == to.str
  IN IF ~Truthy(Get(t, oldName))
     THEN Outcome(t, Returned("rename_timer", "not_running",
            "No timer named " \o Quoted(oldName) \o " is running.", <<>>))
     ELSE Outcome(Delete(Set(t, newName, Get(t, oldName)[1]), oldName),
            Returned("rename_timer", "renamed",
              "Timer renamed from " \o Quoted(oldName) \o " to "
                \o Quoted(newName) \o ".", <<>>))

RenameTimer(t, from, to) ==
  LET oldName == resolveLabel(from)
      newName == to.str
  IN IF ~Truthy(Get(t, oldName))
     THEN Outcome(t, Returned("rename_timer", "not_running",
            "No timer named " \o Quoted(oldName) \o " is running.", <<>>))
     ELSE IF Truthy(Get(t, newName))
          THEN Outcome(t, Returned("rename_timer", "target_exists",
                 "A timer named " \o Quoted(newName)
                   \o " is already running. Stop it first or choose a different name.",
                 <<>>))
          ELSE Outcome(Delete(Set(t, newName, Get(t, oldName)[1]), oldName),
                 Returned("rename_timer", "renamed",
                   "Timer renamed from " \o Quoted(oldName) \o " to "
                     \o Quoted(newName) \o ".", <<>>))

\* switch_timer starting the new timer over one that is running.
SwitchTimer_Overwrite(t, clock, stop, start) ==
  LET stopName == resolveLabel(stop)
      t1 == IF Truthy(Get(t, stopName)) THEN Delete(t, stopName) ELSE t
  IN Outcome(Set(t1, start.str, Timer(clock)),
             Returned("switch_timer", "stopped/started", "", <<>>))

SwitchTimer(t, clock, stop, start) ==
  LET stopName == resolveLabel(stop)
      startName == start.str
      stopped == Get(t, stopName)
      summary1 ==
        IF Truthy(stopped)
        THEN "Stopped " \o Quoted(stopName) \o " ("
               \o formatElapsed(Minus(Num(clock), stopped[1].startTime)) \o ").\n"
        ELSE "No timer named " \o Quoted(stopName) \o " was running.\n"
      kind1 == IF Truthy(stopped) THEN "stopped" ELSE "was_not_running"
      t1 == IF Truthy(stopped) THEN Delete(t, stopName) ELSE t
      existing == Get(t1, startName)
  IN IF Truthy(existing)
     THEN IF CanFormatStart(existing[1])
          THEN Outcome(t1, Returned("switch_timer",
                 kind1 \o "/already_running",
                 summary1 \o "Timer " \o Quoted(startName)
                   \o " is already running (started at "
                   \o toLocaleTimeString(existing[1].startTime) \o ").", <<>>))
          \* the stop half has already taken effect
          ELSE Outcome(t1, Thrown("switch_timer"))
     ELSE Outcome(Set(t1, startName, Timer(clock)),
            Returned("switch_timer", kind1 \o "/started",
              summary1 \o "Started " \o Quoted(startName) \o " at "
                \o toLocaleTimeString(Num(clock)) \o ".", <<>>))

(***************************************************************************)
(* The server: one action per registered tool.  The arguments of a call    *)
(* are validated against the tool's schema before its handler runs; a      *)
(* handler has no await, so it runs from its first line to its return (or  *)
(* throw) without interruption.                                            *)
(***************************************************************************)
Init ==
  /\ timers = <<>>
  /\ now = 0
  /\ result = [op |-> "none", fault |-> "none", kind |-> "", text |-> "",
               names |-> <<>>]
  /\ inflight = <<>>

\* What a call yields: the handler's outcome when the arguments pass the
\* tool's schema, and a rejection that leaves the object t untouched otherwise.
Call(valid, outcome, t, op) ==
  IF valid THEN outcome ELSE Outcome(t, Rejected(op))

start_timer(label) ==
  LET o == Call(labelSchema(label), StartTimer(timers, now, label),
                timers, "start_timer")
  IN /\ timers' = o.timers
     /\ result' = o.result
     /\ UNCHANGED <<now, inflight>>

current_timer(label) ==
  LET o == Call(labelSchema(label), CurrentTimer(timers, now, label),
                timers, "current_timer")
  IN /\ timers' = o.timers
     /\ result' = o.result
     /\ UNCHANGED <<now, inflight>>

stop_timer(label) ==
  LET o == Call(labelSchema(label), StopTimer(timers, now, label),
                timers, "stop_timer")
  IN /\ timers' = o.timers
     /\ result' = o.result
     /\ UNCHANGED <<now, inflight>>

list_timers ==
  LET o == Call(TRUE, ListTimers(timers, now), timers, "list_timers")
  IN /\ timers' = o.timers
     /\ result' = o.result
     /\ UNCHANGED <<now, inflight>>

stop_all_timers ==
  LET o == Call(TRUE, StopAllTimers(timers, now), timers, "stop_all_timers")
  IN /\ timers' = o.timers
     /\ result' = o.result
     /\ UNCHANGED <<now, inflight>>

rename_timer(from, to) ==
  LET o == Call(labelSchema(from) /\ requiredLabelSchema(to),
                RenameTimer(timers, from, to), timers, "rename_timer")
  IN /\ timers' = o.timers
     /\ result' = o.result
     /\ UNCHANGED <<now, inflight>>

switch_timer(stop, start) ==
  LET o == Call(labelSchema(stop) /\ requiredLabelSchema(start),
                SwitchTimer(timers, now, stop, start), timers, "switch_timer")
  IN /\ timers' = o.timers
     /\ result' = o.result
     /\ UNCHANGED <<now, inflight>>

\* Time passes between two calls.
Tick ==
  /\ \A i \in 1..Len(inflight) : inflight[i].suspended
  /\ now + TickMs <= MaxTicks * TickMs
  /\ now' = now + TickMs
  /\ UNCHANGED <<timers, result, inflight>>

\* The calls whose arguments pass validation.
Next ==
  \/ \E label \in ValidArgs : start_timer(label)
  \/ \E label \in ValidArgs : current_timer(label)
  \/ \E label \in ValidArgs : stop_timer(label)
  \/ list_timers
  \/ stop_all_timers
  \/ \E from \in ValidArgs, to \in RequiredArgs : rename_timer(from, to)
  \/ \E stop \in ValidArgs, start \in RequiredArgs : switch_timer(stop, start)
  \/ Tick

Spec == Init /\ [][Next]_vars

(***************************************************************************)
(* Properties.                                                             *)
(***************************************************************************)
\* The labels that can be own keys of the object or arguments of a call.
Keys == ValidLabels

\* The entries of t2 under keys outside S are those of t.
SameOutside(t, t2, S) ==
  \A k \in Keys \ S :
    /\ HasOwn(t, k) <=> HasOwn(t2, k)
    /\ HasOwn(t, k) => OwnValue(t2, k) = OwnValue(t, k)

\* C1: every registry operation called with syntactically valid arguments
\* (labels such as "constructor" and "__proto__" included) returns a text
\* message and never raises a fault.
C1_Infallible ==
  result.op # "none" => result.fault = "none" /\ result.text # ""

\* C2: for every valid label L not in the registry, start_timer(L) inserts L
\* with the current time as its start; current_timer(L) on a present L
\* reports it running, with an elapsed time now - startTime >= 0 that does
\* not decrease as the clock advances; stop_timer(L) removes a present L; and
\* current_timer(L) on an absent L reports "not running".
C2_StartCurrentStop ==
  [][\A label \in ValidArgs :
       LET L == resolveLabel(label)
       IN /\ (start_timer(label) /\ ~HasOwn(timers, L))
               => HasOwn(timers', L) /\ OwnValue(timers', L) = Timer(now)
          /\ (current_timer(label) /\ HasOwn(timers, L))
               => /\ result'.kind = "running"
                  /\ ~IsNaN(OwnValue(timers, L).startTime)
                  /\ now - OwnValue(timers, L).startTime[1] >= 0
          /\ (Tick /\ HasOwn(timers, L) /\ ~IsNaN(OwnValue(timers, L).startTime))
               => now' - OwnValue(timers, L).startTime[1]
                    >= now - OwnValue(timers, L).startTime[1]
          /\ (stop_timer(label) /\ HasOwn(timers, L)) => ~HasOwn(timers', L)
          /\ (current_timer(label) /\ ~HasOwn(timers, L))
               => result'.kind = "not_running"]_vars

\* C3: start_timer(L) leaves exactly one entry for L; when it inserted L the
\* entry carries the time of that call, and a call that finds L present (as
\* the second of two calls in a row does) changes nothing and reports
\* "already running".
C3_IdempotentRejection ==
  [][\A label \in ValidArgs :
       LET L == resolveLabel(label)
       IN start_timer(label)
            => /\ Cardinality({i \in 1..Len(timers') : timers'[i].key = L}) = 1
               /\ ~HasOwn(timers, L) => OwnValue(timers', L) = Timer(now)
               /\ HasOwn(timers, L)
                    => timers' = timers /\ result'.kind = "already_running"]_vars

\* C4: rename_timer(from = L1, to = L2) with L1 in the registry and L2 not in
\* it leaves L1 absent, L2 present with the value L1 had, and every other
\* entry unchanged.
C4_RenameMoves ==
  [][\A from \in ValidArgs, to \in RequiredArgs :
       LET L1 == resolveLabel(from)
           L2 == to.str
       IN (rename_timer(from, to) /\ HasOwn(timers, L1) /\ ~HasOwn(timers, L2))
            => /\ ~HasOwn(timers', L1)
               /\ HasOwn(timers', L2)
               /\ OwnValue(timers', L2) = OwnValue(timers, L1)
               /\ SameOutside(timers, timers', {L1, L2})]_vars

\* C5: rename_timer whose target label `to` is already in the registry (the
\* case to = resolved from included) leaves the registry unchanged: the same
\* entries, with the same start times, in the same order.
C5_RenameTargetExists ==
  \A from \in ValidArgs, to \in RequiredArgs :
    HasOwn(timers, to.str) => RenameTimer(timers, from, to).timers = timers

\* A rename from "10" to "2" was refused while both were running, and both
\* are still there.
C5_Witness ==
  /\ result.op = "rename_timer"
  /\ result.kind = "target_exists"
  /\ result.text = "A timer named " \o Quoted(Label2)
       \o " is already running. Stop it first or choose a different name."
  /\ HasOwn(timers, Label2)
  /\ HasOwn(timers, Label10)
  /\ OwnValue(timers, Label2).tag = "Timer"
  /\ OwnValue(timers, Label10).tag = "Timer"
  /\ OwnValue(timers, Label2) # OwnValue(timers, Label10)

\* C6: rename_timer whose resolved `from` label is not in the registry
\* returns a "not running" message and does not change the registry.
C6_RenameFromAbsent ==
  [][\A from \in ValidArgs, to \in RequiredArgs :
       (rename_timer(from, to) /\ ~HasOwn(timers, resolveLabel(from)))
         => timers' = timers /\ result'.kind = "not_running"]_vars

\* C7: switch_timer(stop = L1, start = L2) with L1 running and L2 not running
\* leaves L1 absent and L2 present, L2's start time being the timestamp of
\* the call, the same instant L1's reported elapsed time is computed from.
C7_SwitchNoGap ==
  [][\A stop \in ValidArgs, start \in RequiredArgs :
       LET L1 == resolveLabel(stop)
           L2 == start.str
       IN (switch_timer(stop, start) /\ HasOwn(timers, L1) /\ ~HasOwn(timers, L2))
            => /\ ~HasOwn(timers', L1)
               /\ HasOwn(timers', L2)
               /\ OwnValue(timers', L2) = Timer(now)
               /\ result'.text =
                    "Stopped " \o Quoted(L1) \o " ("
                      \o formatElapsed(Minus(Num(now), OwnValue(timers, L1).startTime))
                      \o ").\nStarted " \o Quoted(L2) \o " at "
                      \o toLocaleTimeString(Num(now)) \o "."]_vars

\* C8: switch_timer whose `start` label is in the registry and differs from
\* the resolved `stop` label reports "already running" and leaves that entry
\* as it was, whether or not the `stop` timer was running.
C8_SwitchNoOverwrite ==
  [][\A stop \in ValidArgs, start \in RequiredArgs :
       LET L1 == resolveLabel(stop)
           L2 == start.str
       IN (switch_timer(stop, start) /\ HasOwn(timers, L2) /\ L2 # L1)
            => /\ result'.kind \in {"stopped/already_running",
                                    "was_not_running/already_running"}
               /\ HasOwn(timers', L2)
               /\ OwnValue(timers', L2) = OwnValue(timers, L2)]_vars

\* C9: stop_all_timers on a registry with N >= 1 entries empties it and
\* returns a summary of exactly N lines, one per entry; on an empty registry
\* it returns the "no timers" message and changes nothing.
C9_StopAllEmpties ==
  [][stop_all_timers
       => IF Len(timers) >= 1
          THEN /\ timers' = <<>>
               /\ result'.kind = "stopped_all"
               /\ Len(result'.names) = Len(timers)
               /\ {result'.names[i] : i \in 1..Len(result'.names)}
                    = {timers[i].key : i \in 1..Len(timers)}
          ELSE timers' = timers /\ result'.kind = "no_timers"]_vars

\* C10: list_timers returns one line per registry entry, the lines in the
\* order in which the entries were inserted (here for a registry all of whose
\* entries carry a start time, so that the listing is produced).
C10_ListInsertionOrder ==
  [][(/\ list_timers
      /\ Len(timers) >= 1
      /\ \A i \in 1..Len(timers) : CanFormatStart(timers[i].value))
       => result'.names = InsertionOrder(timers)]_vars

\* C11: start_timer appends the multiple-timers warning exactly when the call
\* inserted a new timer and the registry then holds three entries or more;
\* the warning names every label in the registry; a call answered "already
\* running" carries no warning.
C11_WarningIffThird ==
  \A label \in ValidArgs :
    LET L == resolveLabel(label)
        o == StartTimer(timers, now, label)
        inserted == ~HasOwn(timers, L) /\ HasOwn(o.timers, L)
        warned == o.result.kind = "started_warning"
    IN /\ warned <=> (inserted /\ Len(o.timers) >= 3)
       /\ warned => {o.result.names[i] : i \in 1..Len(o.result.names)}
                      = {o.timers[i].key : i \in 1..Len(o.timers)}
       /\ o.result.kind = "already_running" => o.result.names = <<>>

\* The third timer was started and the answer names all three.
C11_Witness ==
  /\ result.op = "start_timer"
  /\ result.kind = "started_warning"
  /\ Len(timers) = 3
  /\ Len(result.names) = 3

(***************************************************************************)
(* formatElapsed on its own: a duration is drawn, and formatted.           *)
(***************************************************************************)
\* The largest number of whole hours in a duration.
MaxHours == 2

\* The durations formatted, in milliseconds: every combination of these
\* hours, minutes, seconds and milliseconds.
Durations ==
  {h * 3600000 + m * 60000 + s * 1000 + r :
     h \in 0..MaxHours, m \in {0, 1, 2, 59}, s \in {0, 1, 5, 59}, r \in {0, 1, 999}}

InitFormat ==
  /\ timers = <<>>
  /\ now \in Durations
  /\ result = [op |-> "none", fault |-> "none", kind |-> "", text |-> "",
               names |-> <<>>]
  /\ inflight = <<>>

\* formatElapsed(now - startTime) for a timer started at time 0.
format_elapsed ==
  /\ result' = Returned("formatElapsed", "formatted",
                        formatElapsed(Minus(Num(now), Num(0))), <<>>)
  /\ UNCHANGED <<timers, now, inflight>>

NextFormat == format_elapsed

SpecFormat == InitFormat /\ [][NextFormat]_vars

\* C12: for a duration of ms >= 0 milliseconds, with T = floor(ms / 1000),
\* H = floor(T / 3600), M = floor((T mod 3600) / 60) and S = T mod 60, the
\* text is the segments "<H>h", "<M>m", "<S>s" joined by a space, the hours
\* segment present iff H > 0, the minutes segment iff M > 0, the seconds
\* segment always; and H * 3600 + M * 60 + S = T, 0 <= M < 60, 0 <= S < 60.
C12_FormatSegments ==
  result.op = "formatElapsed" =>
    LET T == now \div 1000
        H == T \div 3600
        M == (T % 3600) \div 60
        S == T % 60
        hours == IF H > 0 THEN ToString(H) \o "h " ELSE ""
        minutes == IF M > 0 THEN ToString(M) \o "m " ELSE ""
    IN /\ result.text = hours \o minutes \o ToString(S) \o "s"
       /\ H * 3600 + M * 60 + S = T
       /\ 0 <= M /\ M < 60
       /\ 0 <= S /\ S < 60

\* A duration with hours and seconds but no whole minute has been formatted.
C12_Witness ==
  /\ result.op = "formatElapsed"
  /\ now = 2 * 3600000 + 59 * 1000 + 999
  /\ result.text = "2h 59s"

\* C13: 0 ms gives "0s", 59000 ms "59s", 60000 ms "1m 0s", 3600000 ms
\* "1h 0m 0s" and 3725000 ms "1h 2m 5s".
C13_FormatExamples ==
  result.op = "formatElapsed" =>
    /\ now = 0 => result.text = "0s"
    /\ now = 59000 => result.text = "59s"
    /\ now = 60000 => result.text = "1m 0s"
    /\ now = 3600000 => result.text = "1h 0m 0s"
    /\ now = 3725000 => result.text = "1h 2m 5s"

\* C13, amended: as C13, except that 3600000 ms gives "1h 0s" (the minutes
\* segment is left out whenever the minutes are zero).
C13_FormatExamplesAmended ==
  result.op = "formatElapsed" =>
    /\ now = 0 => result.text = "0s"
    /\ now = 59000 => result.text = "59s"
    /\ now = 60000 => result.text = "1m 0s"
    /\ now = 3600000 => result.text = "1h 0s"
    /\ now = 3725000 => result.text = "1h 2m 5s"

\* One hour exactly has been formatted.
C13_Witness ==
  /\ result.op = "formatElapsed"
  /\ now = 3600000
  /\ result.text = "1h 0s"

\* C14: current_timer and list_timers are read-only: a step that is a call
\* of either leaves the registry (its labels, their start times and their
\* order) as it was; in particular current_timer does not stop the timer.
C14_ReadOnly ==
  [][result'.op \in {"current_timer", "list_timers"} => timers' = timers]_vars

\* current_timer has reported "default" as running, 30 seconds after its
\* start, and the timer is still there.
C14_Witness ==
  /\ result.op = "current_timer"
  /\ result.kind = "running"
  /\ result.text = "Timer \"default\" is running.\nStarted:  0:00:00\nElapsed:  30s"
  /\ HasOwn(timers, default)
  /\ OwnValue(timers, default) = Timer(0)

\* C15: a call of start_timer, current_timer, stop_timer, rename_timer (from)
\* or switch_timer (stop) with the label omitted leaves the same registry and
\* gives the same answer as that call with the label "default", from every
\* registry state.
C15_OmittedIsDefault ==
  /\ StartTimer(timers, now, Undefined) = StartTimer(timers, now, Some(default))
  /\ CurrentTimer(timers, now, Undefined)
       = CurrentTimer(timers, now, Some(default))
  /\ StopTimer(timers, now, Undefined) = StopTimer(timers, now, Some(default))
  /\ \A to \in RequiredArgs :
       /\ RenameTimer(timers, Undefined, to)
            = RenameTimer(timers, Some(default), to)
       /\ SwitchTimer(timers, now, Undefined, to)
            = SwitchTimer(timers, now, Some(default), to)

\* A timer was stopped under "default" while another one keeps running.
C15_Witness ==
  /\ result.op = "stop_timer"
  /\ result.text = "Timer \"default\" stopped.\nStarted:  0:00:00"
       \o "\nStopped:  0:00:30\nElapsed:  30s"
  /\ ~HasOwn(timers, default)
  /\ Len(timers) >= 1

(***************************************************************************)
(* The server called with any arguments, those that fail their schema and  *)
(* a missing `to` or `start` included.                                     *)
(***************************************************************************)
\* The arguments drawn: omitted, three labels that pass the schema (one of
\* them a property name of Object.prototype) and the three that fail it.
BoundaryArgs ==
  {Undefined} \cup {Some(s) : s \in {default, Label2, LabelConstructor}}
    \cup {Some(s) : s \in InvalidLabels}

NextBoundary ==
  \/ \E label \in BoundaryArgs : start_timer(label)
  \/ \E label \in BoundaryArgs : current_timer(label)
  \/ \E label \in BoundaryArgs : stop_timer(label)
  \/ list_timers
  \/ stop_all_timers
  \/ \E from \in BoundaryArgs, to \in BoundaryArgs : rename_timer(from, to)
  \/ \E stop \in BoundaryArgs, start \in BoundaryArgs : switch_timer(stop, start)
  \/ Tick

SpecBoundary == Init /\ [][NextBoundary]_vars


\* An argument that fails the label syntax rule.
FailsSyntax(a) == a.present /\ a.str \in InvalidLabels

\* What the model's calls yield, for the arguments that fail the syntax rule
\* or leave out a required label: a rejection, and the registry as it was.
InvalidCallsRejected ==
  /\ \A a \in {x \in Args : FailsSyntax(x)} :
       /\ Call(labelSchema(a), StartTimer(timers, now, a), timers, "start_timer")
            = Outcome(timers, Rejected("start_timer"))
       /\ Call(labelSchema(a), CurrentTimer(timers, now, a), timers,
               "current_timer") = Outcome(timers, Rejected("current_timer"))
       /\ Call(labelSchema(a), StopTimer(timers, now, a), timers, "stop_timer")
            = Outcome(timers, Rejected("stop_timer"))
  /\ \A a \in Args, b \in Args :
       (FailsSyntax(a) \/ FailsSyntax(b) \/ ~b.present)
         => /\ Call(labelSchema(a) /\ requiredLabelSchema(b),
                    RenameTimer(timers, a, b), timers, "rename_timer")
                 = Outcome(timers, Rejected("rename_timer"))
            /\ Call(labelSchema(a) /\ requiredLabelSchema(b),
                    SwitchTimer(timers, now, a, b), timers, "switch_timer")
                 = Outcome(timers, Rejected("switch_timer"))

\* Every label stored in the registry is 1 to 30 characters of [a-z0-9_-]
\* ("default" is such a label).
StoredLabelsValid ==
  \A i \in 1..Len(timers) :
    /\ Len(timers[i].key) \in 1..30
    /\ \A j \in 1..Len(timers[i].key) : timers[i].key[j] \in LabelChars

\* C16: a call with a label that fails the syntax rule, or a rename_timer or
\* switch_timer call without its `to` or `start`, is rejected before the
\* handler runs and leaves the registry unchanged; so every label ever stored
\* in the registry is "default" or matches ^[a-z0-9_-]{1,30}$.
C16_BoundaryRejects ==
  /\ [](InvalidCallsRejected /\ StoredLabelsValid)
  /\ [][result'.fault = "validation" => timers' = timers]_vars

\* A rename_timer call was rejected while timers were running.
C16_Witness ==
  /\ result.op = "rename_timer"
  /\ result.fault = "validation"
  /\ Len(timers) >= 2

\* C17: every entry of the registry is a Timer created by start_timer or by
\* the start half of switch_timer (and possibly moved by rename_timer), and
\* so carries the start time captured at that call.
C17_EntriesAreTimers ==
  \A i \in 1..Len(timers) :
    /\ timers[i].value.tag = "Timer"
    /\ ~IsNaN(timers[i].value.startTime)
    /\ timers[i].value.startTime[1] <= now

\* Every label of S that is in t and in t2 has in t2 the value it has in t.
\* C18: for every operation and every label L that is in the registry before
\* the call and still in it after the call, L's start time after the call is
\* its start time before it (switch_timer with stop and start resolving to the
\* same running label included).  Stated here of the entries that carry a
\* start time.
C18_NeverOverwritten ==
  [][\A L \in Keys :
       (HasOwn(timers, L) /\ HasOwn(timers', L)
          /\ CanFormatStart(OwnValue(timers, L)))
         => OwnValue(timers', L).startTime = OwnValue(timers, L).startTime]_vars

\* C18, amended: the same, except for switch_timer called with stop and start
\* resolving to one label that is in the registry: that timer is stopped and
\* started anew, and carries the timestamp of the call.  The answer of such a
\* call names the label on both of its lines.
C18_OverwrittenOnlyBySwitchSame ==
  [][\A L \in Keys :
       (/\ HasOwn(timers, L)
        /\ HasOwn(timers', L)
        /\ OwnValue(timers', L) # OwnValue(timers, L))
         => /\ result'.op = "switch_timer"
            /\ result'.text
                 = "Stopped " \o Quoted(L) \o " ("
                     \o formatElapsed(Minus(Num(now), OwnValue(timers, L).startTime))
                     \o ").\nStarted " \o Quoted(L) \o " at "
                     \o toLocaleTimeString(Num(now)) \o "."
            /\ OwnValue(timers', L) = Timer(now)]_vars

\* switch_timer was called for "default" on both sides, 30 seconds after its
\* start: the timer is there, with the time of the switch as its start.
C18_Witness ==
  /\ result.op = "switch_timer"
  /\ result.text = "Stopped \"default\" (30s).\nStarted \"default\" at 0:00:30."
  /\ HasOwn(timers, default)
  /\ OwnValue(timers, default) = Timer(30500)

\* C19: switch_timer removes at most one entry and inserts at most one, and
\* touches no entry other than those of the resolved stop label and of the
\* start label; when the resolved stop label is not in the registry the
\* message notes that it was not running, and the start label, if it is not
\* in the registry, is inserted with the timestamp of the call.
C19_SwitchFrame ==
  [][\A stop \in ValidArgs, start \in RequiredArgs :
       LET L1 == resolveLabel(stop)
           L2 == start.str
       IN switch_timer(stop, start)
            => /\ SameOutside(timers, timers', {L1, L2})
               /\ Cardinality({k \in Keys : HasOwn(timers, k) /\ ~HasOwn(timers', k)})
                    <= 1
               /\ Cardinality({k \in Keys : ~HasOwn(timers, k) /\ HasOwn(timers', k)})
                    <= 1
               /\ ~HasOwn(timers, L1)
                    => /\ result'.kind \in {"was_not_running/started",
                                            "was_not_running/already_running"}
                       /\ ~HasOwn(timers, L2)
                            => /\ HasOwn(timers', L2)
                               /\ OwnValue(timers', L2) = Timer(now)]_vars


(***************************************************************************)
(* The handlers in two steps.  Every handler is an async function, invoked *)
(* by the dispatcher on JavaScript's single thread: it runs until it       *)
(* awaits or returns, and no other callback runs before that.  SpecSteps   *)
(* cuts each handler once between its statements (Invoke runs it up to the *)
(* cut, Return from the cut to its return) and lets another call in at the *)
(* cut only where the handler awaits there.                                *)
(*   start_timer, stop_timer: after the check, before the write;           *)
(*   stop_all_timers: after Object.keys, before the deletes;               *)
(*   rename_timer: between timers[to] = ... and delete timers[oldName];    *)
(*   switch_timer: between the stop half and the start half;               *)
(*   current_timer, list_timers: after the read.                           *)
(***************************************************************************)
MaxInflight == 2

Tools ==
  {"start_timer", "current_timer", "stop_timer", "list_timers",
   "stop_all_timers", "rename_timer", "switch_timer"}

\* The arguments SpecSteps draws: a is the optional label (label, from,
\* stop), b the required one (to, start).
StepCalls ==
  {[op |-> op, a |-> a, b |-> Undefined] :
     op \in {"start_timer", "current_timer", "stop_timer"},
     a \in {Undefined, Some(Label2)}}
    \cup {[op |-> op, a |-> Undefined, b |-> Undefined] :
            op \in {"list_timers", "stop_all_timers"}}
    \cup {[op |-> op, a |-> a, b |-> b] :
            op \in {"rename_timer", "switch_timer"},
            a \in {Undefined, Some(Label2)},
            b \in {Some(default), Some(Label2), Some(LabelConstructor)}}

\* A handler that awaits at its cut.
Yields_AtCut(op) == op \in Tools

\* Whether the handler of op awaits at its cut: no handler contains an await.
Yields(op) == FALSE

\* The handler of op run from its first line to its return on the object t.
HandlerOutcome(op, t, clock, a, b) ==
  CASE op = "start_timer" -> StartTimer(t, clock, a)
    [] op = "current_timer" -> CurrentTimer(t, clock, a)
    [] op = "stop_timer" -> StopTimer(t, clock, a)
    [] op = "list_timers" -> ListTimers(t, clock)
    [] op = "stop_all_timers" -> StopAllTimers(t, clock)
    [] op = "rename_timer" -> RenameTimer(t, a, b)
    [] op = "switch_timer" -> SwitchTimer(t, clock, a, b)

\* rename_timer passes both of its checks on the object t.
RenameMoves(t, from, to) ==
  Truthy(Get(t, resolveLabel(from))) /\ ~Truthy(Get(t, to.str))

\* The object after the handler's statements before its cut.
FirstHalf(op, t, a, b) ==
  CASE op = "rename_timer" ->
         IF RenameMoves(t, a, b)
         THEN Set(t, b.str, Get(t, resolveLabel(a))[1])
         ELSE t
    [] op = "switch_timer" ->
         IF Truthy(Get(t, resolveLabel(a))) THEN Delete(t, resolveLabel(a)) ELSE t
    [] OTHER -> t

RECURSIVE RestOfStopAll(_, _)
\* The map callback of stop_all_timers over the names read before the cut:
\* it throws, before its delete, at the first name whose value has no start
\* time to format.
RestOfStopAll(t, names) ==
  IF names = <<>> THEN t
  ELSE IF HasOwn(t, Head(names)) /\ CanFormatStart(OwnValue(t, Head(names)))
       THEN RestOfStopAll(Delete(t, Head(names)), Tail(names))
       ELSE t

\* The object after the handler's statements from its cut to its return,
\* applied to the object t it finds there; c.entry is the object its checks
\* before the cut read.
SecondHalf(c, t, clock) ==
  CASE c.op = "start_timer" ->
         IF Truthy(Get(c.entry, resolveLabel(c.a))) THEN t
         ELSE Set(t, resolveLabel(c.a), Timer(clock))
    [] c.op = "stop_timer" ->
         IF Truthy(Get(c.entry, resolveLabel(c.a)))
         THEN Delete(t, resolveLabel(c.a))
         ELSE t
    [] c.op = "stop_all_timers" -> RestOfStopAll(t, ObjectKeys(c.entry))
    [] c.op = "rename_timer" ->
         IF RenameMoves(c.entry, c.a, c.b) THEN Delete(t, resolveLabel(c.a)) ELSE t
    [] c.op = "switch_timer" ->
         IF Truthy(Get(t, c.b.str)) THEN t ELSE Set(t, c.b.str, Timer(c.clock))
    [] OTHER -> t

\* No handler is on the call stack: every call in flight is suspended.
StackFree == \A i \in 1..Len(inflight) : inflight[i].suspended

\* The dispatcher invokes the handler of a call, which runs up to its cut.
Invoke(call) ==
  /\ StackFree
  /\ Len(inflight) < MaxInflight
  /\ timers' = FirstHalf(call.op, timers, call.a, call.b)
  /\ inflight' = Append(inflight,
                   [op |-> call.op, a |-> call.a, b |-> call.b,
                    entry |-> timers, clock |-> now,
                    suspended |-> Yields(call.op)])
  /\ UNCHANGED <<now, result>>

\* The handler of the i-th call in flight runs from its cut to its return:
\* at once when it did not await, and when the stack is free when it did.
\* The answer is built from what the handler read before the cut.
Return(i) ==
  /\ i \in 1..Len(inflight)
  /\ ~inflight[i].suspended \/ StackFree
  /\ timers' = SecondHalf(inflight[i], timers, now)
  /\ result' = HandlerOutcome(inflight[i].op, inflight[i].entry,
                              inflight[i].clock, inflight[i].a,
                              inflight[i].b).result
  /\ inflight' = SubSeq(inflight, 1, i - 1)
                   \o SubSeq(inflight, i + 1, Len(inflight))
  /\ UNCHANGED now

NextSteps ==
  \/ \E call \in StepCalls : Invoke(call)
  \/ \E i \in 1..MaxInflight : Return(i)
  \/ Tick

SpecSteps == Init /\ [][NextSteps]_vars

\* C20: no handler suspends between its check of the registry and its
\* mutation of it, so the calls do not interleave: at most one call is in
\* flight at any time (no call is invoked, and so none reads the registry,
\* while another has not returned), and what a call leaves in the registry
\* when it returns is what its handler, run from its first line to its return
\* without interruption, makes of the registry it was invoked on.
C20_Atomic ==
  /\ [](Len(inflight) <= 1)
  /\ [][\A i \in 1..Len(inflight) :
          Return(i)
            => timers' = HandlerOutcome(inflight[i].op, inflight[i].entry,
                                        inflight[i].clock, inflight[i].a,
                                        inflight[i].b).timers]_vars

\* rename_timer at its cut: the entry is under both labels, and the call
\* that is in flight is the only one.
C20_Witness ==
  /\ Len(inflight) = 1
  /\ inflight[1].op = "rename_timer"
  /\ HasOwn(inflight[1].entry, default)
  /\ ~HasOwn(inflight[1].entry, Label2)
  /\ HasOwn(timers, default)
  /\ HasOwn(timers, Label2)

====
